---- MODULE Spec2Model ----
(***************************************************************************)
(* State-machine model of CanvasRoot (src/index.tsx): the bootstrap read,  *)
(* the scene reconciliation effect, the debounced autosave pipeline, the   *)
(* locally cached asset catalog with its derived view, and the curation    *)
(* (starred) store.                                                        *)
(*                                                                         *)
(* Conventions.  A JavaScript string whose characters matter (labels, the  *)
(* search query) is a sequence of one-character strings; a string that is  *)
(* only compared for equality (ids, the project identifier) is a TLA+      *)
(* string.  JavaScript null/undefined of an object-valued slot is the      *)
(* record null.  A value parsed from JSON is a record that carries its     *)
(* JavaScript kind.  Variables whose names start with "h_" are history     *)
(* variables: they record what happened and are never read by an action.   *)
(***************************************************************************)
EXTENDS Integers, Sequences, FiniteSets, TLC

(***************************************************************************)
(* Bounds of the model.                                                    *)
(***************************************************************************)
\* change notifications the canvas delivers in one behaviour
MaxChanges == 3
\* distinct scene contents the canvas or the backend can hold
NumScenes == 2
\* clock steps that make up one quiet period
TicksPerDelay == 2
\* entries of a stored catalog
MaxCatalog == 3
\* characters of a search query
MaxQueryLen == 2

(***************************************************************************)
(* Program constants.                                                      *)
(***************************************************************************)
\* window.setTimeout(..., 1000)
DEBOUNCE_MS == 1000
\* String(textEl.text).slice(0, 60)
LABEL_MAX == 60

null == [kind |-> "null"]

\* saveTimer.current === null
NoTimer == 0

Min(a, b) == IF a < b THEN a ELSE b

(***************************************************************************)
(* JavaScript string primitives used by the component.                     *)
(***************************************************************************)
LowerChar(c) ==
    CASE c = "A" -> "a"
      [] c = "C" -> "c"
      [] c = "D" -> "d"
      [] c = "I" -> "i"
      [] c = "T" -> "t"
      [] OTHER -> c

toLowerCase(s) == [i \in 1..Len(s) |-> LowerChar(s[i])]

RECURSIVE trimStart(_)
trimStart(s) ==
    IF s # <<>> /\ Head(s) = " " THEN trimStart(Tail(s)) ELSE s

RECURSIVE trimEnd(_)
trimEnd(s) ==
    IF s # <<>> /\ s[Len(s)] = " " THEN trimEnd(SubSeq(s, 1, Len(s) - 1)) ELSE s

trim(s) == trimEnd(trimStart(s))

\* haystack.includes(q)
includes(h, q) ==
    \E i \in 0..(Len(h) - Len(q)) : SubSeq(h, i + 1, i + Len(q)) = q

\* s.slice(0, n)
slice0(s, n) == SubSeq(s, 1, Min(n, Len(s)))

\* array.includes(x) on an array of ids
arrayIncludes(arr, x) == \E i \in 1..Len(arr) : arr[i] = x

\* array.filter((y) => y !== x)
RECURSIVE filterOut(_, _)
filterOut(arr, x) ==
    IF arr = <<>> THEN <<>>
    ELSE IF Head(arr) = x THEN filterOut(Tail(arr), x)
    ELSE <<Head(arr)>> \o filterOut(Tail(arr), x)

(***************************************************************************)
(* JSON values as the component sees them after JSON.parse.                *)
(***************************************************************************)
\* a JSON string or number used as an id; String(v) is its repr
JStr(s) == [kind |-> "string", repr |-> s]
JNum(s) == [kind |-> "number", repr |-> s]
StringOf(v) == v.repr

\* a sub-element of a library item
TextEl(chars) == [kind |-> "object", type |-> "text", hasText |-> TRUE, text |-> chars]
ShapeEl == [kind |-> "object", type |-> "rectangle", hasText |-> FALSE, text |-> <<>>]
NullEl == [kind |-> "null", type |-> "", hasText |-> FALSE, text |-> <<>>]

\* a library item: an object with an optional id and an optional elements
\* member, or a JSON null standing where an item should be
Item(hasId, id, elementsKind, elements) ==
    [kind |-> "object", hasId |-> hasId, id |-> id,
     elementsKind |-> elementsKind, elements |-> elements]
NullItem ==
    [kind |-> "null", hasId |-> FALSE, id |-> JStr(""),
     elementsKind |-> "undefined", elements |-> <<>>]

\* a JSON number standing where an item should be: its id and elements
\* members read as undefined
NumberItem ==
    [kind |-> "number", hasId |-> FALSE, id |-> JStr(""),
     elementsKind |-> "undefined", elements |-> <<>>]

\* a parsed catalog: an array of items, some other object, or null
JArray(items) == [kind |-> "array", items |-> items]
JObject == [kind |-> "object", items |-> <<>>]
JNull == [kind |-> "null", items |-> <<>>]

\* a parsed curation record { starredIds?: ... }, or null
Meta(starredKind, ids) == [kind |-> "object", starredKind |-> starredKind, starredIds |-> ids]
MetaNull == [kind |-> "null", starredKind |-> "undefined", starredIds |-> <<>>]

\* what localStorage holds under one key: nothing, or a text that either
\* is the JSON encoding of the value json or is not JSON at all
Absent == [present |-> FALSE, empty |-> FALSE, valid |-> FALSE, json |-> null]
EmptyText == [present |-> TRUE, empty |-> TRUE, valid |-> FALSE, json |-> null]
Garbage == [present |-> TRUE, empty |-> FALSE, valid |-> FALSE, json |-> null]
JSONstringify(v) == [present |-> TRUE, empty |-> FALSE, valid |-> TRUE, json |-> v]

\* JSON.parse(raw): the value, or a SyntaxError
JSONparse(raw) ==
    IF raw.valid THEN [threw |-> FALSE, value |-> raw.json]
    ELSE [threw |-> TRUE, value |-> null]

\* if (raw): getItem returned a non-empty string
Truthy(raw) == raw.present /\ ~raw.empty

(***************************************************************************)
(* normalizedLibraries: the derived PresentationView.                      *)
(***************************************************************************)
\* the find() predicate of the label scan
IsLabelElement(el) ==
    /\ el.kind # "null"
    /\ el.type = "text"
    /\ el.hasText
    /\ trim(el.text) # <<>>

RECURSIVE find(_)
find(els) ==
    IF els = <<>> THEN [found |-> FALSE, el |-> NullEl]
    ELSE IF IsLabelElement(Head(els)) THEN [found |-> TRUE, el |-> Head(els)]
    ELSE find(Tail(els))

\* `Item ${index + 1}`
Placeholder(index) == <<"I", "t", "e", "m", " ", ToString(index + 1)>>

\* the label of one item (index is 0-based, as in Array.map)
LabelOf(item, index) ==
    IF item.elementsKind = "other" THEN Placeholder(index)
    ELSE LET els == IF item.elementsKind = "array" THEN item.elements ELSE <<>>
             textEl == find(els)
         IN IF textEl.found /\ textEl.el.text # <<>>
            THEN slice0(textEl.el.text, LABEL_MAX)
            ELSE Placeholder(index)

\* String(anyItem.id ?? index)
IdOf(item, index) == IF item.hasId THEN StringOf(item.id) ELSE ToString(index)

Entry(item, index, starred) ==
    LET label == LabelOf(item, index)
        id == IdOf(item, index)
    IN [id |-> id, label |-> label, haystack |-> toLowerCase(label),
        isStarred |-> arrayIncludes(starred, id)]

\* Number(b.isStarred) - Number(a.isStarred)
NumberOf(b) == IF b THEN 1 ELSE 0
Compare(a, b) == NumberOf(b.isStarred) - NumberOf(a.isStarred)

\* Array.prototype.sort with the comparator Compare: a stable sort
RECURSIVE InsertUnstable(_, _)
InsertUnstable(sorted, e) ==
    IF sorted = <<>> THEN <<e>>
    ELSE IF Compare(Head(sorted), e) < 0
         THEN <<Head(sorted)>> \o InsertUnstable(Tail(sorted), e)
         ELSE <<e>> \o sorted

RECURSIVE Insert(_, _)
Insert(sorted, e) ==
    IF sorted = <<>> THEN <<e>>
    ELSE IF Compare(Head(sorted), e) <= 0
         THEN <<Head(sorted)>> \o Insert(Tail(sorted), e)
         ELSE <<e>> \o sorted

RECURSIVE sort(_)
sort(arr) ==
    IF arr = <<>> THEN <<>>
    ELSE Insert(sort(SubSeq(arr, 1, Len(arr) - 1)), arr[Len(arr)])

\* libraryQuery.trim().toLowerCase()
NeedleCaseSensitive(query) == trim(query)
Needle(query) == toLowerCase(trim(query))

\* q ? items.filter((i) => i.haystack.includes(q)) : items
Filter(items, q) ==
    IF q = <<>> THEN items
    ELSE SelectSeq(items, LAMBDA i : includes(i.haystack, q))

\* the memo: a thrown TypeError, or the view
NormalizedLibraries(items, query, starred) ==
    IF items.kind = "null" THEN [threw |-> FALSE, view |-> <<>>]
    ELSE IF items.kind # "array" THEN [threw |-> TRUE, view |-> <<>>]
    ELSE IF \E i \in 1..Len(items.items) : items.items[i].kind = "null"
         THEN [threw |-> TRUE, view |-> <<>>]
    ELSE LET mapped == [i \in 1..Len(items.items) |->
                          Entry(items.items[i], i - 1, starred)]
         IN [threw |-> FALSE, view |-> sort(Filter(mapped, Needle(query)))]

(***************************************************************************)
(* Inputs the environment can supply.                                      *)
(***************************************************************************)
\* the (elements, appState, files) of one scene; the three members differ
\* so that a mix-up of members shows
Scene(k) == [elements |-> k, appState |-> 10 + k, files |-> 20 + k]
Scenes == {Scene(k) : k \in 1..NumScenes}

\* a scene JSON.stringify throws on (it holds a cycle or a BigInt), and the
\* test that tells it from the scenes above
Unserializable == Scene(0)
Serializable(body) == body.elements # Unserializable.elements

\* library items a stored catalog can be made of
ItemPool ==
    { Item(TRUE, JStr("a"), "array", <<TextEl(<<"C", "a", "t">>)>>),
      Item(TRUE, JStr("b"), "array", <<ShapeEl, TextEl(<<"A", "t", " ">>)>>),
      Item(FALSE, JStr(""), "undefined", <<>>) }

RECURSIVE SeqsUpTo(_, _)
SeqsUpTo(S, n) ==
    IF n = 0 THEN {<<>>}
    ELSE LET shorter == SeqsUpTo(S, n - 1)
         IN shorter \cup {Append(s, x) : s \in {t \in shorter : Len(t) = n - 1}, x \in S}

\* well-formed catalogs, and the stored texts that encode them
Catalogs == {JArray(items) : items \in SeqsUpTo(ItemPool, MaxCatalog)}

\* catalogs whose shape the component does not expect
OddCatalogs ==
    { JObject, JNull,
      JArray(<<NullItem>>),
      JArray(<<NumberItem>>),
      JArray(<<Item(TRUE, JNum("1"), "other", <<>>), Item(TRUE, JStr("a"), "array", <<NullEl, TextEl(<<" ">>)>>)>>) }

\* curation records a previous session, or anything else, may have stored
StoredMetas ==
    { Absent, EmptyText, Garbage,
      JSONstringify(MetaNull),
      JSONstringify(Meta("undefined", <<>>)),
      JSONstringify(Meta("array", <<>>)),
      JSONstringify(Meta("array", <<JStr("a")>>)),
      JSONstringify(Meta("array", <<JStr("b"), JNum("1")>>)),
      JSONstringify(Meta("array", <<JStr("a"), JStr("a")>>)) }

QueryChars == {"a", "T", " "}
Queries == SeqsUpTo(QueryChars, MaxQueryLen)

\* how a write request can settle
SaveOutcomes == {"rejected", "not_ok", "ok_undecodable", "ok_no_updatedAt", "ok_updatedAt"}

\* how the bootstrap read can settle: the fetch rejects, the status is not
\* OK, the body is not JSON, or the body is { data?, updatedAt? }
BootOutcome(kind, decodes, dataKind, data, stamped) ==
    [kind |-> kind, decodes |-> decodes, dataKind |-> dataKind, data |-> data,
     stamped |-> stamped]
BootFailures ==
    { BootOutcome("network_error", FALSE, "absent", null, FALSE),
      BootOutcome("not_ok", FALSE, "absent", null, FALSE),
      BootOutcome("not_ok", TRUE, "object", Scene(1), TRUE),
      BootOutcome("ok", FALSE, "absent", null, FALSE) }
BootOutcomes ==
    BootFailures
    \cup {BootOutcome("ok", TRUE, "object", d, s) : d \in Scenes, s \in BOOLEAN}
    \cup {BootOutcome("ok", TRUE, k, null, s) : k \in {"absent", "nonobject"}, s \in BOOLEAN}

\* timestamps shown by the footer
BootStamp == <<"boot", 0>>
ServerStamp(n) == <<"server", n>>
LocalStamp(n) == <<"local", n>>

(***************************************************************************)
(* State.                                                                  *)
(***************************************************************************)
VARIABLES
    projectId,          \* searchParams.get("projectId"), "" when not bound
    controlsParam,      \* searchParams.get("controls")
    viewModeEnabled, initialData, lastUpdated, isSaving,
    libraryItems, libraryQuery, libraryOpen, starredLibraryIds,
    excalidrawReady,
    saveTimer,          \* saveTimer.current
    excalidrawRef,      \* excalidrawRef.current
    rendered,           \* the state values the closures of the last commit hold
    needsRender,        \* a state update is queued and not yet rendered
    phase,              \* "rendered" (first render, effects not run), "mounted", "crashed"
    timers,             \* the browser's pending timeouts
    nextTimerId,
    requests,           \* write requests in flight
    nextRequestId,
    bootstrap,          \* the bootstrap read
    localStorage,
    sceneLog,           \* updateScene invocations
    libraryLog,         \* updateLibrary invocations
    changesLeft,        \* change notifications the canvas will still deliver
    h_burst,            \* accepted notifications no ticket has fired for, and the last one
    h_event,            \* the last autosave or curation event
    h_toggles           \* the last two toggleStar calls

reactState == <<viewModeEnabled, initialData, lastUpdated, isSaving, libraryItems,
                libraryQuery, libraryOpen, starredLibraryIds, excalidrawReady>>
session == <<projectId, controlsParam>>
saveVars == <<saveTimer, timers, nextTimerId, requests, nextRequestId>>
history == <<changesLeft, h_burst, h_event, h_toggles>>
vars == <<session, reactState, saveVars, excalidrawRef, rendered, needsRender, phase,
          bootstrap, localStorage, sceneLog, libraryLog, history>>

NoApi == "none"
TheApi == "api"

Closure(v, d, r, l) ==
    [viewModeEnabled |-> v, initialData |-> d, excalidrawReady |-> r, libraryItems |-> l]

NoOutcome == BootOutcome("none", FALSE, "absent", null, FALSE)

InitWith(projects, modes, controls, catalogTexts, metaTexts, changes) ==
    /\ projectId \in projects
    /\ controlsParam \in controls
    /\ viewModeEnabled \in modes
    /\ initialData = null
    /\ lastUpdated = <<>>
    /\ isSaving = FALSE
    /\ libraryItems = JNull
    /\ libraryQuery = <<>>
    /\ libraryOpen = FALSE
    /\ starredLibraryIds = <<>>
    /\ excalidrawReady = FALSE
    /\ saveTimer = NoTimer
    /\ excalidrawRef = NoApi
    /\ rendered = Closure(viewModeEnabled, null, FALSE, JNull)
    /\ needsRender = FALSE
    /\ phase = "rendered"
    /\ timers = {}
    /\ nextTimerId = 1
    /\ requests = {}
    /\ nextRequestId = 1
    /\ bootstrap = [status |-> "idle", cancelled |-> FALSE, outcome |-> NoOutcome]
    /\ localStorage \in [libraries : catalogTexts, librariesMeta : metaTexts]
    /\ sceneLog = <<>>
    /\ libraryLog = <<>>
    /\ changesLeft = changes
    /\ h_burst = [count |-> 0, last |-> null]
    /\ h_event = [op |-> "none", n |-> 0, arg |-> null, flag |-> FALSE]
    /\ h_toggles = <<>>

(***************************************************************************)
(* Rendering.  A state update made outside a user-input handler (a network *)
(* callback, a timer callback, an effect, the canvas's readiness callback) *)
(* is queued and rendered in a later task; a user-input handler renders    *)
(* before it returns.  A commit gives the handlers and effects the new     *)
(* state values and runs the effects whose dependencies changed.           *)
(***************************************************************************)
\* the scene effect: the updateScene calls it makes
SceneEffect(cl, ref) ==
    IF cl.initialData = null \/ ~cl.excalidrawReady \/ ref = NoApi
    THEN <<>>
    ELSE <<cl.initialData>>

\* the dependency list [initialData, excalidrawReady] of the scene effect
SceneDepsAlways(old, new) == TRUE
SceneDepsChanged(old, new) ==
    \/ old.initialData # new.initialData
    \/ old.excalidrawReady # new.excalidrawReady

\* the library push effect: the updateLibrary calls it makes
LibraryPushEffect(cl, ref) ==
    IF cl.libraryItems.kind = "null" \/ ref = NoApi THEN <<>> ELSE <<cl.libraryItems>>

\* the dependency list [libraryItems] of the library push effect
LibraryDepsNever(old, new) == FALSE
LibraryDepsChanged(old, new) == old.libraryItems # new.libraryItems

Pushes(calls, threw) == [i \in 1..Len(calls) |-> [arg |-> calls[i], threw |-> threw]]

\* one commit with the closure values cl: the memo is evaluated during the
\* render; when it throws, React unmounts the tree and the effect cleanups run
Commit(cl, query, starred, threw) ==
    IF NormalizedLibraries(cl.libraryItems, query, starred).threw
    THEN /\ phase' = "crashed"
         /\ bootstrap' = [bootstrap EXCEPT !.cancelled = TRUE]
         /\ needsRender' = FALSE
         /\ UNCHANGED <<rendered, sceneLog, libraryLog>>
    ELSE /\ rendered' = cl
         /\ needsRender' = FALSE
         /\ sceneLog' = sceneLog \o
               (IF SceneDepsChanged(rendered, cl)
                THEN Pushes(SceneEffect(cl, excalidrawRef), threw) ELSE <<>>)
         /\ libraryLog' = libraryLog \o
               (IF LibraryDepsChanged(rendered, cl)
                THEN Pushes(LibraryPushEffect(cl, excalidrawRef), threw) ELSE <<>>)
         /\ UNCHANGED <<phase, bootstrap>>

Render ==
    /\ phase = "mounted"
    /\ needsRender
    /\ \E threw \in BOOLEAN :
         Commit(Closure(viewModeEnabled, initialData, excalidrawReady, libraryItems),
                libraryQuery, starredLibraryIds, threw)
    /\ UNCHANGED <<session, reactState, saveVars, excalidrawRef, localStorage, history>>

(***************************************************************************)
(* Mount: the effects of the first commit, in source order.                *)
(***************************************************************************)
\* the first try block of the library load effect
LibraryLoad(raw, readThrows) ==
    IF readThrows \/ ~Truthy(raw) \/ JSONparse(raw).threw
    THEN [set |-> FALSE, value |-> JNull]
    ELSE [set |-> TRUE, value |-> JSONparse(raw).value]

\* the second try block of the library load effect
MetaLoad(raw, readThrows) ==
    IF readThrows \/ ~Truthy(raw) \/ JSONparse(raw).threw
    THEN [set |-> FALSE, value |-> <<>>]
    ELSE LET meta == JSONparse(raw).value
         IN IF meta.kind = "null" \/ meta.starredKind # "array"
            THEN [set |-> FALSE, value |-> <<>>]
            ELSE [set |-> TRUE,
                  value |-> [i \in 1..Len(meta.starredIds) |-> StringOf(meta.starredIds[i])]]

\* the library load effect: its two try blocks, one after the other
LoadBothInOneTry(rawLibrary, rawMeta, readThrows1, readThrows2) ==
    [lib |-> LibraryLoad(rawLibrary, readThrows1),
     meta |-> IF readThrows1 \/ (Truthy(rawLibrary) /\ JSONparse(rawLibrary).threw)
              THEN [set |-> FALSE, value |-> <<>>]
              ELSE MetaLoad(rawMeta, readThrows2)]
LoadBoth(rawLibrary, rawMeta, readThrows1, readThrows2) ==
    [lib |-> LibraryLoad(rawLibrary, readThrows1), meta |-> MetaLoad(rawMeta, readThrows2)]

Mount ==
    /\ phase = "rendered"
    /\ phase' = "mounted"
    /\ bootstrap' = [bootstrap EXCEPT !.status = "pending"]
    /\ sceneLog' = sceneLog \o Pushes(SceneEffect(rendered, excalidrawRef), FALSE)
    /\ \E readThrows1 \in BOOLEAN, readThrows2 \in BOOLEAN, threw \in BOOLEAN :
         LET loaded == LoadBoth(localStorage.libraries, localStorage.librariesMeta,
                                readThrows1, readThrows2)
             lib == loaded.lib
             meta == loaded.meta
         IN /\ libraryItems' = IF lib.set THEN lib.value ELSE libraryItems
            /\ libraryLog' = libraryLog
                  \o (IF lib.set /\ excalidrawRef # NoApi
                      THEN Pushes(<<lib.value>>, threw) ELSE <<>>)
                  \o Pushes(LibraryPushEffect(rendered, excalidrawRef), threw)
            /\ starredLibraryIds' = IF meta.set THEN meta.value ELSE starredLibraryIds
            /\ needsRender' = (needsRender \/ (lib.set /\ lib.value # libraryItems) \/ meta.set)
            /\ h_event' = [op |-> "Mount", n |-> 0,
                           arg |-> [lib |-> readThrows1, meta |-> readThrows2],
                           flag |-> FALSE]
    /\ UNCHANGED <<session, viewModeEnabled, initialData, lastUpdated, isSaving,
                   libraryQuery, libraryOpen, excalidrawReady, saveVars, excalidrawRef,
                   rendered, localStorage, changesLeft, h_burst, h_toggles>>

(***************************************************************************)
(* The canvas's readiness callback (the excalidrawAPI prop).               *)
(***************************************************************************)
ExcalidrawAPI ==
    /\ phase # "crashed"
    /\ excalidrawRef = NoApi
    /\ excalidrawRef' = TheApi
    /\ excalidrawReady' = TRUE
    /\ needsRender' = TRUE
    /\ \E threw \in BOOLEAN :
         libraryLog' = libraryLog \o
            (IF rendered.libraryItems.kind # "null"
             THEN Pushes(<<rendered.libraryItems>>, threw) ELSE <<>>)
    /\ UNCHANGED <<session, viewModeEnabled, initialData, lastUpdated, isSaving,
                   libraryItems, libraryQuery, libraryOpen, starredLibraryIds, saveVars,
                   rendered, phase, bootstrap, localStorage, sceneLog, history>>

(***************************************************************************)
(* The bootstrap read settles.                                             *)
(***************************************************************************)
\* json?.data && typeof json.data === "object"
BootDataAnyStatus(o) ==
    IF o.decodes /\ o.dataKind = "object"
    THEN [set |-> TRUE, value |-> o.data] ELSE [set |-> FALSE, value |-> null]
BootData(o) ==
    IF o.kind = "ok" /\ o.decodes /\ o.dataKind = "object"
    THEN [set |-> TRUE, value |-> o.data] ELSE [set |-> FALSE, value |-> null]

\* json?.updatedAt
BootUpdatedAt(o) == o.kind = "ok" /\ o.decodes /\ o.stamped

BootstrapSettle(o) ==
    /\ bootstrap.status = "pending"
    /\ bootstrap' = [bootstrap EXCEPT !.status = "settled", !.outcome = o]
    /\ IF bootstrap.cancelled
       THEN UNCHANGED <<initialData, lastUpdated, needsRender>>
       ELSE /\ initialData' = IF BootData(o).set THEN BootData(o).value ELSE initialData
            /\ lastUpdated' = IF BootUpdatedAt(o) THEN BootStamp ELSE lastUpdated
            /\ needsRender' = (needsRender \/ BootData(o).set \/ BootUpdatedAt(o))
    /\ UNCHANGED <<session, viewModeEnabled, isSaving, libraryItems, libraryQuery,
                   libraryOpen, starredLibraryIds, excalidrawReady, saveVars,
                   excalidrawRef, rendered, phase, localStorage, sceneLog, libraryLog,
                   history>>

(***************************************************************************)
(* The autosave pipeline: handleChange, the ticket body, the settling of a *)
(* write request.                                                          *)
(***************************************************************************)
\* a state setter does nothing once the tree is unmounted
Alive == phase # "crashed"

\* if (viewModeEnabled) return;
AcceptsAlways(view) == TRUE
Accepts(view) == ~view

\* window.clearTimeout(id)
clearTimeoutNoop(pending, id) == pending
clearTimeout(pending, id) == {t \in pending : t.id # id}

\* window.setTimeout(callback, DEBOUNCE_MS): the callback closes over the
\* arguments of this notification.  History fields: age, the time the
\* ticket has waited; view, the mode in force when it was scheduled
Ticket(id, args, view) ==
    [id |-> id, delay |-> DEBOUNCE_MS, age |-> 0, view |-> view,
     elements |-> args.elements, appState |-> args.appState, files |-> args.files]

\* JSON.stringify({ elements, appState, files }) of the ticket's closure
Body(t) == [elements |-> t.elements, appState |-> t.appState, files |-> t.files]

Event(op, n, arg, flag) == [op |-> op, n |-> n, arg |-> arg, flag |-> flag]

HandleChange(args) ==
    /\ Alive
    /\ changesLeft > 0
    /\ changesLeft' = changesLeft - 1
    /\ IF Accepts(rendered.viewModeEnabled)
       THEN /\ timers' = (IF saveTimer # NoTimer THEN clearTimeout(timers, saveTimer) ELSE timers)
                            \cup {Ticket(nextTimerId, args, viewModeEnabled)}
            /\ saveTimer' = nextTimerId
            /\ nextTimerId' = nextTimerId + 1
            /\ h_burst' = [count |-> h_burst.count + 1, last |-> args]
       ELSE UNCHANGED <<timers, saveTimer, nextTimerId, h_burst>>
    /\ h_event' = Event("HandleChange", changesLeft, args, viewModeEnabled)
    /\ UNCHANGED <<session, reactState, requests, nextRequestId, excalidrawRef, rendered,
                   needsRender, phase, bootstrap, localStorage, sceneLog, libraryLog,
                   h_toggles>>

\* time passes while a ticket waits
Step == DEBOUNCE_MS \div TicksPerDelay
Tick ==
    /\ \E t \in timers : t.delay > 0
    /\ timers' = {[t EXCEPT !.delay = IF t.delay > Step THEN t.delay - Step ELSE 0,
                            !.age = t.age + Min(Step, t.delay)] : t \in timers}
    /\ UNCHANGED <<session, reactState, saveTimer, nextTimerId, requests, nextRequestId,
                   excalidrawRef, rendered, needsRender, phase, bootstrap, localStorage,
                   sceneLog, libraryLog, history>>

\* if (!projectId) return;
BoundAlways(project) == TRUE
BoundNever(project) == FALSE
Bound(project) == project # ""

\* a write request; history fields: ticket, waited and view describe the
\* ticket that issued it, viewAtIssue the mode in force when it was issued
Request(id, t, mode) ==
    [id |-> id, body |-> Body(t), ticket |-> t.id, waited |-> t.age, view |-> t.view,
     viewAtIssue |-> mode]

\* .finally(() => setIsSaving(false)), whatever the outcome
SavingAfterSuccessOnly(outcome) == outcome \in {"rejected", "not_ok"}
SavingAfter(outcome) == FALSE

\* catch { setIsSaving(false) } around the building of the request
SavingAfterThrow == FALSE

\* the ticket body
TimerFire(t) ==
    /\ t \in timers
    /\ t.delay = 0
    /\ timers' = timers \ {t}
    /\ saveTimer' = NoTimer
    /\ h_burst' = [count |-> 0, last |-> h_burst.last]
    /\ IF ~Bound(projectId)
       THEN /\ UNCHANGED <<isSaving, needsRender, requests, nextRequestId>>
            /\ h_event' = Event("TimerFire", t.id, Body(t), FALSE)
       ELSE IF Serializable(Body(t))
       THEN /\ isSaving' = IF Alive THEN TRUE ELSE isSaving
            /\ needsRender' = (needsRender \/ (Alive /\ ~isSaving))
            /\ requests' = requests \cup {Request(nextRequestId, t, viewModeEnabled)}
            /\ nextRequestId' = nextRequestId + 1
            /\ h_event' = Event("TimerFire", nextRequestId, Body(t), TRUE)
       ELSE \* setIsSaving(true), JSON.stringify throws, the outer catch
            \* calls setIsSaving(false); the two updates are batched
            /\ isSaving' = IF Alive THEN SavingAfterThrow ELSE isSaving
            /\ needsRender' = (needsRender \/ (Alive /\ isSaving))
            /\ UNCHANGED <<requests, nextRequestId>>
            /\ h_event' = Event("TimerFire", t.id, Body(t), FALSE)
    /\ UNCHANGED <<session, viewModeEnabled, initialData, lastUpdated, libraryItems,
                   libraryQuery, libraryOpen, starredLibraryIds, excalidrawReady,
                   nextTimerId, excalidrawRef, rendered, phase, bootstrap, localStorage,
                   sceneLog, libraryLog, changesLeft, h_toggles>>

\* the .then() handler: the timestamp a settled request leaves
StampAfterAnyResponse(r, outcome, before) ==
    IF outcome = "ok_updatedAt" THEN ServerStamp(r.id)
    ELSE IF outcome = "rejected" THEN before ELSE LocalStamp(r.id)
StampAfterLastIssuedWins(r, outcome, before) ==
    IF r.id # nextRequestId - 1 THEN before
    ELSE CASE outcome = "ok_updatedAt" -> ServerStamp(r.id)
           [] outcome \in {"ok_no_updatedAt", "ok_undecodable"} -> LocalStamp(r.id)
           [] OTHER -> before
StampAfter(r, outcome, before) ==
    CASE outcome = "ok_updatedAt" -> ServerStamp(r.id)
      [] outcome \in {"ok_no_updatedAt", "ok_undecodable"} -> LocalStamp(r.id)
      [] OTHER -> before

SaveSettle(r, outcome) ==
    /\ r \in requests
    /\ requests' = requests \ {r}
    /\ lastUpdated' = IF Alive THEN StampAfter(r, outcome, lastUpdated) ELSE lastUpdated
    /\ isSaving' = IF Alive THEN SavingAfter(outcome) ELSE isSaving
    /\ needsRender' = (needsRender \/ (Alive /\ (isSaving' # isSaving \/ lastUpdated' # lastUpdated)))
    /\ h_event' = Event("SaveSettle", r.id, outcome, TRUE)
    /\ UNCHANGED <<session, viewModeEnabled, initialData, libraryItems, libraryQuery,
                   libraryOpen, starredLibraryIds, excalidrawReady, saveTimer, timers,
                   nextTimerId, nextRequestId, excalidrawRef, rendered, phase, bootstrap,
                   localStorage, sceneLog, libraryLog, changesLeft, h_burst, h_toggles>>

(***************************************************************************)
(* User input: the owner controls and the assets panel.                    *)
(***************************************************************************)
\* setViewModeEnabled((v) => !v)
ToggleViewMode ==
    /\ phase = "mounted"
    /\ controlsParam = "1"
    /\ viewModeEnabled' = ~viewModeEnabled
    /\ \E threw \in BOOLEAN :
         Commit(Closure(viewModeEnabled', initialData, excalidrawReady, libraryItems),
                libraryQuery, starredLibraryIds, threw)
    /\ UNCHANGED <<session, initialData, lastUpdated, isSaving, libraryItems, libraryQuery,
                   libraryOpen, starredLibraryIds, excalidrawReady, saveVars,
                   excalidrawRef, localStorage, history>>

\* setLibraryOpen((open) => !open)
ToggleLibraryOpen ==
    /\ phase = "mounted"
    /\ libraryOpen' = ~libraryOpen
    /\ \E threw \in BOOLEAN :
         Commit(Closure(viewModeEnabled, initialData, excalidrawReady, libraryItems),
                libraryQuery, starredLibraryIds, threw)
    /\ UNCHANGED <<session, viewModeEnabled, initialData, lastUpdated, isSaving,
                   libraryItems, libraryQuery, starredLibraryIds, excalidrawReady,
                   saveVars, excalidrawRef, localStorage, history>>

\* setLibraryQuery(e.target.value)
SetLibraryQuery(q) ==
    /\ phase = "mounted"
    /\ libraryOpen
    /\ q # libraryQuery
    /\ libraryQuery' = q
    /\ \E threw \in BOOLEAN :
         Commit(Closure(viewModeEnabled, initialData, excalidrawReady, libraryItems),
                q, starredLibraryIds, threw)
    /\ UNCHANGED <<session, viewModeEnabled, initialData, lastUpdated, isSaving,
                   libraryItems, libraryOpen, starredLibraryIds, excalidrawReady,
                   saveVars, excalidrawRef, localStorage, history>>

\* the ids of the entries the assets panel lists (the memo of the last commit)
ListedIds ==
    LET memo == NormalizedLibraries(rendered.libraryItems, libraryQuery, starredLibraryIds)
    IN {memo.view[i].id : i \in 1..Len(memo.view)}

\* const next = exists ? prev.filter((x) => x !== id) : [...prev, id];
NextStarredAddOnly(prev, id) == IF arrayIncludes(prev, id) THEN prev ELSE Append(prev, id)
NextStarred(prev, id) ==
    IF arrayIncludes(prev, id) THEN filterOut(prev, id) ELSE Append(prev, id)

\* JSON.stringify({ starredIds: next })
MetaTextOfPrevious(next) ==
    JSONstringify(Meta("array", [i \in 1..(Len(next) - 1) |-> JStr(next[i])]))
MetaText(next) == JSONstringify(Meta("array", [i \in 1..Len(next) |-> JStr(next[i])]))

LastTwo(log) == IF Len(log) > 2 THEN SubSeq(log, Len(log) - 1, Len(log)) ELSE log

\* toggleStar(id); writeThrows: localStorage.setItem throws
ToggleStar(id, writeThrows) ==
    /\ phase = "mounted"
    /\ libraryOpen
    /\ id \in ListedIds
    /\ LET next == NextStarred(starredLibraryIds, id)
       IN /\ starredLibraryIds' = next
          /\ localStorage' = IF writeThrows THEN localStorage
                             ELSE [localStorage EXCEPT !.librariesMeta = MetaText(next)]
          /\ h_toggles' = LastTwo(Append(h_toggles,
                             [id |-> id, prev |-> starredLibraryIds, next |-> next,
                              wrote |-> ~writeThrows,
                              catalogBefore |-> localStorage.libraries]))
          /\ \E threw \in BOOLEAN :
               Commit(Closure(viewModeEnabled, initialData, excalidrawReady, libraryItems),
                      libraryQuery, next, threw)
    /\ UNCHANGED <<session, viewModeEnabled, initialData, lastUpdated, isSaving,
                   libraryItems, libraryQuery, libraryOpen, excalidrawReady, saveVars,
                   excalidrawRef, changesLeft, h_burst, h_event>>

(***************************************************************************)
(* Specifications.                                                         *)
(***************************************************************************)
Projects == {"", "p1"}
NoCatalog == {Absent}
NoMeta == {Absent}

\* the autosave pipeline and the owner's view-mode control
InitSave == InitWith(Projects, BOOLEAN, {"1"}, NoCatalog, NoMeta, MaxChanges)

NextSave ==
    \/ Mount
    \/ Render
    \/ \E a \in Scenes : HandleChange(a)
    \/ Tick
    \/ \E t \in timers : TimerFire(t)
    \/ \E r \in requests, o \in SaveOutcomes : SaveSettle(r, o)
    \/ ToggleViewMode

SpecSave == InitSave /\ [][NextSave]_vars

\* the autosave pipeline when the canvas can also hand over a scene that
\* cannot be serialized
InitSaveAny == InitWith({"p1"}, {FALSE}, {"1"}, NoCatalog, NoMeta, MaxChanges)

NextSaveAny ==
    \/ Mount
    \/ Render
    \/ \E a \in Scenes \cup {Unserializable} : HandleChange(a)
    \/ Tick
    \/ \E t \in timers : TimerFire(t)
    \/ \E r \in requests, o \in SaveOutcomes : SaveSettle(r, o)

SpecSaveAny == InitSaveAny /\ [][NextSaveAny]_vars

\* the autosave pipeline of a session bound to a project, where time passes
\* while a ticket waits and the browser runs the callback of a timeout that
\* is due
InitSaveLive == InitWith({"p1"}, BOOLEAN, {"1"}, NoCatalog, NoMeta, MaxChanges - 1)

SpecSaveLive ==
    /\ InitSaveLive
    /\ [][NextSave]_vars
    /\ WF_vars(Tick)
    /\ WF_vars(\E t \in timers : TimerFire(t))

\* a stored catalog of one entry
OneEntryCatalog == JSONstringify(JArray(<<Item(TRUE, JStr("a"), "array", <<>>)>>))

\* the bootstrap read and the scene reconciliation, next to one save, mode
\* toggles and a catalog load
InitBoot == InitWith({"p1"}, {FALSE}, {"1"}, {Absent, OneEntryCatalog}, NoMeta, 1)

NextBoot ==
    \/ Mount
    \/ ExcalidrawAPI
    \/ Render
    \/ \E o \in BootOutcomes : BootstrapSettle(o)
    \/ \E a \in Scenes : HandleChange(a)
    \/ Tick
    \/ \E t \in timers : TimerFire(t)
    \/ \E r \in requests, o \in SaveOutcomes : SaveSettle(r, o)
    \/ ToggleViewMode

SpecBoot == InitBoot /\ [][NextBoot]_vars

\* curation records that star entries of the catalogs above
StarringMetas ==
    { Absent,
      JSONstringify(Meta("array", <<JStr("a")>>)),
      JSONstringify(Meta("array", <<JStr("b"), JNum("1")>>)) }

\* the derived view: every well-formed catalog, searched
InitView ==
    InitWith({""}, {FALSE}, {"1"}, {JSONstringify(c) : c \in Catalogs}, StarringMetas, 0)

\* the queries one keystroke away from q: a character typed or deleted at
\* its end
OneKeystroke(q) ==
    {p \in Queries : \E c \in QueryChars : p = Append(q, c) \/ q = Append(p, c)}

NextView ==
    \/ Mount
    \/ Render
    \/ ToggleLibraryOpen
    \/ \E q \in OneKeystroke(libraryQuery) : SetLibraryQuery(q)

SpecView == InitView /\ [][NextView]_vars

\* stored catalog texts of every kind: missing, empty, not JSON, JSON of an
\* unexpected shape, and two well-formed catalogs
CatalogTexts ==
    {Absent, EmptyText, Garbage}
    \cup {JSONstringify(c) : c \in OddCatalogs}
    \cup {JSONstringify(JArray(items)) : items \in
            { <<Item(TRUE, JStr("a"), "array", <<TextEl(<<"C", "a", "t">>)>>)>>,
              <<Item(TRUE, JStr("a"), "array", <<>>),
                Item(FALSE, JStr(""), "undefined", <<>>)>> }}

\* the startup load of the catalog and the curation record, and the curation
\* store
InitCuration == InitWith({""}, {FALSE}, {"1"}, CatalogTexts, StoredMetas, 0)

NextCuration ==
    \/ Mount
    \/ ExcalidrawAPI
    \/ Render
    \/ ToggleLibraryOpen
    \/ \E id \in ListedIds, writeThrows \in BOOLEAN : ToggleStar(id, writeThrows)

SpecCuration == InitCuration /\ [][NextCuration]_vars

\* the startup load and the canvas's readiness in every order, where React
\* runs the effects of the first commit and renders a queued update, and the
\* canvas reports its instance unless the tree was unmounted before
InitStartup == InitWith({""}, {FALSE}, {"1"}, CatalogTexts, StarringMetas, 0)

NextStartup ==
    \/ Mount
    \/ ExcalidrawAPI
    \/ Render
    \/ ToggleLibraryOpen

SpecStartup ==
    /\ InitStartup
    /\ [][NextStartup]_vars
    /\ WF_vars(Mount)
    /\ WF_vars(Render)
    /\ WF_vars(ExcalidrawAPI)

(***************************************************************************)
(* Claims about the autosave pipeline (checked under SpecSave).            *)
(***************************************************************************)
\* a step in which the ticket body issues a write request
IssuesWrite == nextRequestId' # nextRequestId
\* the request such a step issues
Issued == CHOOSE r \in requests' : r.id = nextRequestId
\* a step in which a write request settles
Settles == h_event' # h_event /\ h_event'.op = "SaveSettle"

\* C1: with a project identifier bound, N >= 1 change notifications that
\* each arrive before the previous ticket fired lead to exactly one write
\* request, issued after the full quiet period, whose body is the
\* (elements, appState, files) of the last of them.  While notifications are
\* waiting, exactly one ticket is pending and it holds the last
\* notification's arguments; the firing of a ticket issues exactly one
\* request, with that body, and closes the burst.
C1_DebounceCoalesces ==
    /\ [](Bound(projectId) /\ h_burst.count > 0 =>
            \E t \in timers :
               /\ timers = {t}
               /\ t.id = saveTimer
               /\ [elements |-> t.elements, appState |-> t.appState, files |-> t.files]
                    = h_burst.last)
    /\ [][Bound(projectId) /\ h_event' # h_event /\ h_event'.op = "TimerFire" =>
            /\ IssuesWrite
            /\ requests' = requests \cup {Issued}
            /\ h_burst.count >= 1
            /\ h_burst'.count = 0
            /\ Issued.body = h_burst.last
            /\ Issued.waited >= DEBOUNCE_MS]_vars
    /\ [][IssuesWrite => h_event' # h_event /\ h_event'.op = "TimerFire"]_vars

\* C1 witness: two notifications were coalesced into one request, which
\* carries the second one's arguments
C1_Witness ==
    /\ Bound(projectId)
    /\ h_event.op = "TimerFire"
    /\ nextTimerId = 3
    /\ nextRequestId = 2
    /\ timers = {}
    /\ \E r \in requests : r.ticket = 2 /\ r.body = h_burst.last /\ r.body = Scene(2)

\* C2 (as claimed): no write request is issued while view-only mode is active
C2_NeverWritesInViewMode == \A r \in requests : ~r.viewAtIssue

\* C2 (amended): every ticket, and every write request, comes from a change
\* notification that was received while view-only mode was off; a request is
\* issued in view-only mode only for a ticket scheduled before the switch
C2_WritesComeFromEditMode ==
    /\ \A t \in timers : ~t.view
    /\ \A r \in requests : ~r.view

\* C2 witness: a request issued in view-only mode for a ticket scheduled in
\* edit mode
C2_Witness == \E r \in requests : r.viewAtIssue /\ ~r.view

\* C3 (as claimed): at most one write request is in flight
C3_AtMostOneInFlight == Cardinality(requests) <= 1

FailedOutcomesClaimed == {"rejected", "not_ok", "ok_undecodable"}
FailedOutcomes == {"rejected", "not_ok"}

\* what a settling request leaves alone, whatever its outcome
SettleFrame ==
    /\ isSaving' = FALSE
    /\ nextRequestId' = nextRequestId
    /\ requests' \subseteq requests
    /\ Cardinality(requests') = Cardinality(requests) - 1
    /\ UNCHANGED <<timers, saveTimer, nextTimerId, viewModeEnabled, initialData,
                   libraryItems, libraryQuery, libraryOpen, starredLibraryIds,
                   excalidrawReady, localStorage, sceneLog, libraryLog>>

\* C9 (as claimed): a save that fails by rejection, non-OK status or an
\* undecodable body leaves the last-saved timestamp unchanged, issues no
\* further request and only resets the saving indicator
C9_FailedSaveLeavesStamp ==
    [][Settles /\ h_event'.arg \in FailedOutcomesClaimed =>
          SettleFrame /\ lastUpdated' = lastUpdated]_vars

\* C9 (amended): a save that fails by rejection or non-OK status leaves the
\* last-saved timestamp unchanged, issues no further request and only resets
\* the saving indicator; an OK response with an undecodable body does the
\* same except that it sets the last-saved timestamp to the local time
C9_FailedSaveAbandoned ==
    [][Settles =>
          /\ SettleFrame
          /\ (h_event'.arg \in FailedOutcomes => lastUpdated' = lastUpdated)
          /\ (h_event'.arg = "ok_undecodable" => lastUpdated' = LocalStamp(h_event'.n))]_vars

\* C9 witness: the second save was rejected and the first save's timestamp
\* is still shown
C9_Witness ==
    /\ h_event = Event("SaveSettle", 2, "rejected", TRUE)
    /\ lastUpdated = ServerStamp(1)
    /\ ~isSaving
    /\ requests = {}

(***************************************************************************)
(* Claims about the bootstrap read and the scene reconciliation (checked   *)
(* under SpecBoot).                                                        *)
(***************************************************************************)
\* C4: with one loaded Document and one canvas-ready event, in either
\* order, updateScene is invoked exactly once, with that Document: not
\* before both facts hold, not zero times once a commit has seen both, and
\* not a second time, whatever else changes later and whether or not the
\* command throws.
C4_ScenePushedExactlyOnce ==
    /\ Len(sceneLog) <= 1
    /\ (sceneLog # <<>> =>
          /\ initialData # null
          /\ excalidrawReady
          /\ sceneLog[1].arg = initialData
          /\ sceneLog[1].arg = bootstrap.outcome.data)
    /\ (phase = "mounted" /\ ~needsRender /\ initialData # null /\ excalidrawReady =>
          Len(sceneLog) = 1)

\* C4 witness: the Document arrived, the canvas became ready, the command
\* threw, and afterwards the catalog was loaded, a save settled and the mode
\* was switched, all rendered
C4_Witness ==
    /\ Len(sceneLog) = 1
    /\ sceneLog[1].threw
    /\ sceneLog[1].arg = Scene(2)
    /\ h_event.op = "SaveSettle"
    /\ lastUpdated = ServerStamp(1)
    /\ viewModeEnabled
    /\ libraryItems # JNull
    /\ ~needsRender

\* the bootstrap read has settled in failure
BootFailed == bootstrap.status = "settled" /\ bootstrap.outcome \in BootFailures

PresentationView == NormalizedLibraries(libraryItems, libraryQuery, starredLibraryIds).view

\* the catalog's entries, in catalog order, before filtering and sorting
CatalogEntries ==
    [i \in 1..Len(libraryItems.items) |->
        Entry(libraryItems.items[i], i - 1, starredLibraryIds)]

Count(seq, e) == Cardinality({i \in 1..Len(seq) : seq[i] = e})
Range(seq) == {seq[i] : i \in 1..Len(seq)}

\* the view holds exactly the entries that satisfy keep, each as often as
\* the catalog holds it
HoldsExactly(keep(_)) ==
    /\ \A e \in Range(PresentationView) : keep(e)
    /\ \A e \in Range(CatalogEntries) :
          keep(e) => Count(PresentationView, e) = Count(CatalogEntries, e)
    /\ Range(PresentationView) \subseteq Range(CatalogEntries)

\* C7 (as claimed): the view holds exactly the catalog entries whose
\* lowercased label contains the lowercased query
C7_ViewMatchesLowercasedQuery ==
    HoldsExactly(LAMBDA e : includes(toLowerCase(e.label), toLowerCase(libraryQuery)))

\* C7 (amended): the view holds exactly the catalog entries whose lowercased
\* label contains the query after it is trimmed of leading and trailing
\* white space and lowercased (all entries when the trimmed query is empty)
C7_ViewMatchesTrimmedQuery ==
    HoldsExactly(LAMBDA e : includes(toLowerCase(e.label), toLowerCase(trim(libraryQuery))))

\* C7 witness: a mixed-case query keeps some entries of a three-entry
\* catalog and drops others
C7_Witness ==
    /\ libraryQuery = <<"a", "T">>
    /\ Len(libraryItems.items) = 3
    /\ Len(PresentationView) = 2

\* the entries of seq that are (or are not) starred, in the order of seq
StarredOf(seq) == SelectSeq(seq, LAMBDA e : e.isStarred)
UnstarredOf(seq) == SelectSeq(seq, LAMBDA e : ~e.isStarred)

\* C8: the view is the stable partition of the matching entries: the
\* starred ones in catalog order, then the unstarred ones in catalog order
C8_StablePartition ==
    LET matching == SelectSeq(CatalogEntries,
                              LAMBDA e : includes(e.haystack, toLowerCase(trim(libraryQuery))))
    IN PresentationView = StarredOf(matching) \o UnstarredOf(matching)

\* C8 witness: a view of three entries whose first catalog entry is
\* unstarred and whose other two are starred, so the sort had to move two
\* entries forward and keep their order
C8_Witness ==
    /\ Len(PresentationView) = 3
    /\ ~CatalogEntries[1].isStarred
    /\ CatalogEntries[2].isStarred
    /\ CatalogEntries[3].isStarred
    /\ CatalogEntries[2] # CatalogEntries[3]
    /\ PresentationView = <<CatalogEntries[2], CatalogEntries[3], CatalogEntries[1]>>

(***************************************************************************)
(* Claims about the startup load and the curation store (checked under     *)
(* SpecCuration).                                                          *)
(***************************************************************************)
\* the set of ids a later session would load from the curation key
PersistedSet == Range(MetaLoad(localStorage.librariesMeta, FALSE).value)

\* the last two toggleStar calls were for the same id
ToggledTwice == Len(h_toggles) = 2 /\ h_toggles[1].id = h_toggles[2].id

\* C6 (as claimed): toggling an id twice in a row restores the membership
\* of the CurationSet, and the persisted value is then the original set
C6_DoubleToggleRestoresBoth ==
    ToggledTwice =>
       /\ Range(starredLibraryIds) = Range(h_toggles[1].prev)
       /\ PersistedSet = Range(h_toggles[1].prev)

\* C6 (amended): toggling an id twice in a row restores the membership of
\* the CurationSet, and, when the second toggle's storage write succeeds,
\* the persisted value is then the original set
C6_DoubleToggleRestores ==
    ToggledTwice =>
       /\ Range(starredLibraryIds) = Range(h_toggles[1].prev)
       /\ (h_toggles[2].wrote =>
             /\ localStorage.librariesMeta.valid
             /\ PersistedSet = Range(h_toggles[1].prev))

\* C6 witness: an id that was starred, with another id starred as well, was
\* toggled twice and both writes succeeded
C6_Witness ==
    /\ ToggledTwice
    /\ h_toggles[1].wrote
    /\ h_toggles[2].wrote
    /\ arrayIncludes(h_toggles[1].prev, h_toggles[1].id)
    /\ Len(h_toggles[1].prev) = 2
    /\ Len(h_toggles[2].prev) = 1

\* a stored text the startup load cannot use: missing, empty or not JSON
Unusable(raw) == ~raw.present \/ raw.empty \/ ~raw.valid

\* C10: at startup a catalog value that is missing or not parseable leaves
\* the catalog unset, a curation value that is missing or not parseable
\* leaves the CurationSet empty, nothing is raised, and each key is loaded
\* whenever its own read and parse succeed, whatever happened to the other
C10_StartupLoadIsIndependent ==
    [][phase = "rendered" /\ phase' # "rendered" =>
          LET rawLibrary == localStorage.libraries
              rawMeta == localStorage.librariesMeta
              threw == h_event'.arg
          IN /\ phase' = "mounted"
             /\ (Unusable(rawLibrary) => libraryItems' = JNull)
             /\ (Unusable(rawMeta) => starredLibraryIds' = <<>>)
             /\ (~Unusable(rawLibrary) /\ ~threw.lib => libraryItems' = rawLibrary.json)
             /\ (~Unusable(rawMeta) /\ ~threw.meta /\ rawMeta.json.kind = "object"
                   /\ rawMeta.json.starredKind = "array" =>
                   /\ Len(starredLibraryIds') = Len(rawMeta.json.starredIds)
                   /\ \A i \in 1..Len(starredLibraryIds') :
                         starredLibraryIds'[i] = rawMeta.json.starredIds[i].repr)]_vars

\* C10 witness: the catalog text was not JSON, and the curation record next
\* to it was loaded, a numeric id coerced to a string
C10_Witness ==
    /\ phase = "mounted"
    /\ localStorage.libraries = Garbage
    /\ libraryItems = JNull
    /\ starredLibraryIds = <<"b", "1">>
    /\ h_toggles = <<>>

\* the last toggleStar call
LastToggle == h_toggles[Len(h_toggles)]

\* a step that is a toggleStar call
Toggles == h_toggles' # h_toggles

\* C11: a toggle whose storage write succeeds leaves, in the same step,
\* under the curation key the JSON text of exactly the in-memory CurationSet
\* (so the set a later session loads equals it); no toggle, whether its
\* write succeeds or throws, changes the value under the catalog key.
C11_TogglePersistsSameTurn ==
    /\ [][Toggles =>
            /\ localStorage'.libraries = localStorage.libraries
            /\ (LastToggle'.wrote =>
                  /\ localStorage'.librariesMeta = MetaText(starredLibraryIds')
                  /\ PersistedSet' = Range(starredLibraryIds'))
            /\ (~LastToggle'.wrote => localStorage' = localStorage)]_vars
    /\ [](h_toggles # <<>> => localStorage.libraries = h_toggles[1].catalogBefore)

\* C11 witness: next to a stored two-entry catalog, a toggle that starred a
\* second id was persisted
C11_Witness ==
    /\ h_toggles # <<>>
    /\ LastToggle.wrote
    /\ Len(starredLibraryIds) = 2
    /\ LastToggle.next = starredLibraryIds
    /\ PersistedSet = Range(starredLibraryIds)
    /\ localStorage.libraries.valid
    /\ Len(localStorage.libraries.json.items) = 2

(***************************************************************************)
(* Further claims about the autosave pipeline (checked under SpecSave).    *)
(***************************************************************************)
\* a step that is a change notification
Notifies == h_event' # h_event /\ h_event'.op = "HandleChange"

\* C12: a change notification received while view-only mode is active
\* changes nothing in the autosave pipeline: no ticket is scheduled, and a
\* ticket that is scheduled stays scheduled with its arguments and its
\* firing time; requests, the saving indicator and the timestamp stay too.
C12_ViewModeNotificationIsNoop ==
    [][Notifies /\ viewModeEnabled =>
          UNCHANGED <<timers, saveTimer, nextTimerId, requests, nextRequestId,
                      isSaving, lastUpdated, h_burst>>]_vars

\* C12 witness: a notification with other arguments arrived in view-only
\* mode while a ticket scheduled in edit mode had already waited
C12_Witness ==
    /\ h_event.op = "HandleChange"
    /\ h_event.flag
    /\ viewModeEnabled
    /\ \E t \in timers :
          /\ t.id = saveTimer
          /\ t.age > 0
          /\ t.delay > 0
          /\ Body(t) # h_event.arg

\* a step that is the body of a ticket running
Fires == h_event' # h_event /\ h_event'.op = "TimerFire"

\* C13: at most one save ticket is scheduled, and it is the one
\* saveTimer.current names; a change notification in edit mode leaves
\* exactly one scheduled ticket, a fresh one that holds the new arguments
\* and the full quiet period, whatever was scheduled before; the ticket
\* whose body runs is the one scheduled last, so a cancelled one never fires.
C13_AtMostOneTicket ==
    /\ [](/\ Cardinality(timers) <= 1
          /\ \A t \in timers : t.id = saveTimer /\ t.id = nextTimerId - 1
          /\ (timers = {} => saveTimer = NoTimer \/ saveTimer = nextTimerId - 1))
    /\ [][Notifies /\ ~viewModeEnabled =>
            \E t \in timers' :
               /\ timers' = {t}
               /\ t.id = nextTimerId
               /\ t \notin timers
               /\ Body(t) = h_event'.arg
               /\ t.delay = DEBOUNCE_MS
               /\ t.age = 0]_vars
    /\ [][Fires =>
            \E t \in timers :
               /\ timers = {t}
               /\ timers' = {}
               /\ t.id = nextTimerId - 1
               /\ Body(t) = h_event'.arg
               /\ Body(t) = h_burst.last]_vars

\* C13 witness: a second notification replaced the ticket of the first; the
\* new ticket is the only one and holds the second notification's arguments
C13_Witness ==
    /\ h_event.op = "HandleChange"
    /\ ~h_event.flag
    /\ h_event.arg = Scene(1)
    /\ h_burst.count = 2
    /\ nextTimerId = 3
    /\ \E t \in timers : timers = {t} /\ t.id = 2 /\ t.age = 0 /\ Body(t) = Scene(1)

\* the outcomes in which the response status is OK
OkOutcomes == {"ok_updatedAt", "ok_no_updatedAt", "ok_undecodable"}

\* C14: a write request in flight is removed by nothing but its own
\* settling: change notifications, ticket firings, clock steps and mode
\* switches leave it in flight.  When its OK response arrives, its timestamp
\* becomes the last-saved value whether or not a newer request was issued
\* or has already settled: the last response to arrive wins.
C14_LastResponseWins ==
    /\ [][~Settles => requests \subseteq requests']_vars
    /\ [][Settles =>
            \E r \in requests :
               /\ r.id = h_event'.n
               /\ requests' = requests \ {r}
               /\ (h_event'.arg = "ok_updatedAt" => lastUpdated' = ServerStamp(r.id))
               /\ (h_event'.arg \in OkOutcomes \ {"ok_updatedAt"} =>
                     lastUpdated' = LocalStamp(r.id))]_vars

\* C14 witness: the first request's response arrived after the second
\* request had been issued and had settled, and its timestamp is shown
C14_Witness ==
    /\ h_event = Event("SaveSettle", 1, "ok_updatedAt", TRUE)
    /\ nextRequestId = 3
    /\ requests = {}
    /\ lastUpdated = ServerStamp(1)

\* C15: when a ticket fires in a session with no project identifier, no
\* write request is issued, the saving indicator and the last-saved
\* timestamp are left as they were, and the ticket is consumed: no ticket
\* remains scheduled and saveTimer.current is reset.  Such a session never
\* has a request in flight, never shows the saving indicator and never
\* gets a timestamp from a save.
C15_UnboundTicketIsDropped ==
    /\ [][Fires /\ projectId = "" =>
            /\ UNCHANGED <<requests, nextRequestId, isSaving, lastUpdated>>
            /\ ~IssuesWrite
            /\ timers' = {}
            /\ saveTimer' = NoTimer]_vars
    /\ [](projectId = "" =>
            requests = {} /\ nextRequestId = 1 /\ ~isSaving /\ lastUpdated = <<>>)

\* C15 witness: in a session without a project identifier the ticket of two
\* coalesced notifications has fired
C15_Witness ==
    /\ projectId = ""
    /\ h_event.op = "TimerFire"
    /\ ~h_event.flag
    /\ h_event.n = 2
    /\ timers = {}
    /\ saveTimer = NoTimer
    /\ requests = {}
    /\ ~isSaving

(***************************************************************************)
(* Claims about the saving indicator (checked under SpecSaveAny, where the *)
(* building of a request can throw).                                       *)
(***************************************************************************)
\* a step in which the ticket body throws while it builds the request
BuildThrows == Fires /\ projectId # "" /\ h_event'.arg = Unserializable

\* C16: right after a save attempt settles, whatever its outcome (an OK
\* response with or without a decodable body, a non-OK status, a rejected
\* fetch), and right after the building of a request threw, the saving
\* indicator is false; and in every state with no write request in flight
\* the saving indicator is false.
C16_SavingFalseOnceSettled ==
    /\ [][Settles => isSaving' = FALSE]_vars
    /\ [][BuildThrows => isSaving' = FALSE /\ ~IssuesWrite]_vars
    /\ [](requests = {} => ~isSaving)

\* C16 witness: one save settled with an OK response, and then the building
\* of the next request threw; nothing is in flight
C16_Witness ==
    /\ h_event.op = "TimerFire"
    /\ h_event.arg = Unserializable
    /\ projectId # ""
    /\ nextRequestId = 2
    /\ lastUpdated = LocalStamp(1)
    /\ requests = {}
    /\ ~isSaving

(***************************************************************************)
(* Further claims about the startup load of the catalog (checked under     *)
(* SpecStartup and SpecCuration).                                         *)
(***************************************************************************)
\* a catalog of the expected shape: an array of item objects
WellFormed(catalog) ==
    /\ catalog.kind = "array"
    /\ \A i \in 1..Len(catalog.items) : catalog.items[i].kind = "object"

\* the startup load has read a catalog of the expected shape
CatalogLoaded == phase = "mounted" /\ WellFormed(libraryItems)

\* updateLibrary has been invoked with the live catalog
CatalogPushed == \E i \in 1..Len(libraryLog) : libraryLog[i].arg = libraryItems

\* C17: when the startup load has read a parseable catalog (an array of
\* item objects), the catalog is eventually pushed to the canvas's library
\* view with updateLibrary, whether the canvas reported its instance before
\* the startup read, between the read and the re-render, or after the
\* re-render; and it is never pushed before the instance exists.
C17_CatalogEventuallyPushed ==
    /\ CatalogLoaded ~> CatalogPushed
    /\ [](libraryLog # <<>> => excalidrawRef = TheApi)

\* C17 witness: the canvas reported its instance after the startup read
\* (the reference was still empty when the catalog was read), and the
\* two-entry catalog was pushed once, by the push effect of the re-render or
\* by the readiness callback
C17_Witness ==
    /\ CatalogLoaded
    /\ excalidrawRef = TheApi
    /\ ~needsRender
    /\ rendered.libraryItems = libraryItems
    /\ Len(libraryLog) = 1
    /\ libraryLog[1].arg = libraryItems
    /\ Len(libraryItems.items) = 2

\* C18 (as claimed): whatever is stored under the catalog key at startup
\* (nothing, a text that is not JSON, or JSON of an unexpected shape), the
\* session never reaches the crashed state and the PresentationView can be
\* derived from the state
C18_StoredCatalogNeverCrashes ==
    /\ phase # "crashed"
    /\ ~NormalizedLibraries(libraryItems, libraryQuery, starredLibraryIds).threw

\* C19 (as claimed): in every state in which a write request is in flight
\* the saving indicator is true, also when two saves overlap and the earlier
\* one has settled
C19_SavingWhileInFlight == requests # {} => isSaving

(***************************************************************************)
(* Progress of the autosave pipeline (checked under SpecSaveLive).         *)
(***************************************************************************)
\* change notifications were accepted and no ticket has fired for them yet
Unsaved == projectId # "" /\ h_burst.count > 0

====
